---- MODULE Spec2Model ----
(***************************************************************************)
(* Model of versions/ver1.py: the keyboard-aware edit distance             *)
(* (modified_levenshtein_ratio), the suggestion ranker (autocorrect) and   *)
(* the interactive loop (main).                                            *)
(*                                                                         *)
(* Strings are sequences of one-character strings.  Distances are kept in  *)
(* half units (the code's costs are 0, 0.5 and 1), and a similarity ratio  *)
(* is the pair <<num, den>> standing for the double 1 - dist / max_len.    *)
(***************************************************************************)
EXTENDS Integers, Sequences, FiniteSets

VARIABLES pc,              \* position of the modelled call / of main
          word1, word2,    \* arguments of modified_levenshtein_ratio
          nearby_keys,     \* the neighbor relation (a dict in the code)
          ratio,           \* value returned by modified_levenshtein_ratio
          prev_ratio,      \* value returned before nearby_keys was extended
          word,            \* autocorrect: word argument; main: the stripped input
          dictionary,      \* autocorrect / main: the word list
          threshold,       \* autocorrect: threshold argument
          max_suggestions, \* autocorrect: max_suggestions argument
          similarities,    \* autocorrect: the local list after the sort
          result,          \* autocorrect: the returned pair
          auto_correct_mode, \* main: the session toggle
          selection,       \* main: the last line read at the selection prompt
          out              \* main: the last message printed

vars == <<pc, word1, word2, nearby_keys, ratio, prev_ratio, word, dictionary,
          threshold, max_suggestions, similarities, result,
          auto_correct_mode, selection, out>>

(***************************************************************************)
(* Bounds                                                                  *)
(***************************************************************************)
MaxLen == 3
MaxDict == 3
MaxSug == 2
MaxLine == 2
MemoLen == 10

(***************************************************************************)
(* Characters and str.lower()                                              *)
(***************************************************************************)
\* str.lower() of one character: the capital letters map to the small ones,
\* every other character of the inputs (small letters, digits, space) to itself
LowerOfUpper ==
    [A |-> "a", B |-> "b", C |-> "c", D |-> "d", E |-> "e", F |-> "f",
     G |-> "g", H |-> "h", I |-> "i", J |-> "j", K |-> "k", L |-> "l",
     M |-> "m", N |-> "n", O |-> "o", P |-> "p", Q |-> "q", R |-> "r",
     S |-> "s", T |-> "t", U |-> "u", V |-> "v", W |-> "w", X |-> "x",
     Y |-> "y", Z |-> "z"]

lower(c) == IF c \in DOMAIN LowerOfUpper THEN LowerOfUpper[c] ELSE c

str_lower(s) == [k \in 1..Len(s) |-> lower(s[k])]

\* dict.get(key, []) on the neighbor relation; neighbor lists are kept as sets
dict_get(d, key) == IF key \in DOMAIN d THEN d[key] ELSE {}

(***************************************************************************)
(* Similarities.  A similarity is kept as the pair <<2*max_len - 2*dist,   *)
(* 2*max_len>>: it stands for the float the code computes at line 77,      *)
(* 1 - dist / max_len, in IEEE double arithmetic.                          *)
(***************************************************************************)

(***************************************************************************)
(* IEEE double arithmetic, as far as line 77 and the comparisons of lines  *)
(* 92 and 102 need it.  A non-negative double is <<e, m>>: m is the        *)
(* sequence of its FBits significand bits, the first one 1, and the value  *)
(* is 0.m * 2^e.  Rounding is to nearest, ties to even.                    *)
(***************************************************************************)
FBits == 53

FZeroBits == [k \in 1..FBits |-> 0]
FZero == <<-1075, FZeroBits>>
FOne  == <<1, [k \in 1..FBits |-> IF k = 1 THEN 1 ELSE 0]>>
\* a double below zero: line 77 yields none (dist <= max_len), so only its
\* being below every other double is kept
FNegative == <<-2000, FZeroBits>>

\* bits + 1; <<carry out, bits>>: the last 0 becomes 1, the 1s after it 0
BitsInc(bits) ==
    LET Z == {k \in 1..Len(bits) : bits[k] = 0}
    IN IF Z = {} THEN <<1, [k \in 1..Len(bits) |-> 0]>>
       ELSE LET p == CHOOSE i \in Z : \A j \in Z : j <= i
            IN <<0, [k \in 1..Len(bits) |->
                       IF k < p THEN bits[k] ELSE IF k = p THEN 1 ELSE 0]>>

\* round the significand bits (first bit 1) to FBits bits; sticky tells that
\* the value has further non-zero bits beyond them
FRound(e, bits, sticky) ==
    IF Len(bits) <= FBits
    THEN <<e, bits \o [k \in 1..(FBits - Len(bits)) |-> 0]>>
    ELSE LET kept  == SubSeq(bits, 1, FBits)
             rest  == sticky \/ \E k \in (FBits + 2)..Len(bits) : bits[k] = 1
             up    == bits[FBits + 1] = 1 /\ (rest \/ kept[FBits] = 1)
             inc   == BitsInc(kept)
         IN IF ~up THEN <<e, kept>>
            ELSE IF inc[1] = 1 THEN <<e + 1, FOne[2]>>
            ELSE <<e, inc[2]>>

\* n / d = (n1 / d1) * 2^e with 1/2 <= n1 / d1 < 1; <<n1, d1, e>>
RECURSIVE FNormal(_, _, _)
FNormal(n, d, e) ==
    IF n >= d THEN FNormal(n, 2 * d, e + 1)
    ELSE IF 2 * n < d THEN FNormal(2 * n, d, e - 1)
    ELSE <<n, d, e>>

\* 2^k modulo d
RECURSIVE Pow2Mod(_, _)
Pow2Mod(k, d) ==
    IF k <= 15 THEN (2 ^ k) % d
    ELSE (Pow2Mod(15, d) * Pow2Mod(k - 15, d)) % d

\* the first k bits of n / d (n < d) after the binary point, and the
\* remainder of the long division; <<bits, remainder>>
DivBits(n, d, k) ==
    <<[j \in 1..k |-> (2 * ((n * Pow2Mod(j - 1, d)) % d)) \div d],
      (n * Pow2Mod(k, d)) % d>>

\* the double a / b for integers a >= 0, b > 0 (also the double a decimal
\* literal such as 0.90 denotes, for a / b = 9 / 10)
FDiv(a, b) ==
    IF a = 0 THEN FZero
    ELSE LET nd == FNormal(a, b, 0)
             q  == DivBits(nd[1], nd[2], FBits + 1)
         IN FRound(nd[3], q[1], q[2] # 0)

\* the two's complement of a bit string: 2^Len - value
BitsNeg(bits) == BitsInc([k \in 1..Len(bits) |-> 1 - bits[k]])[2]

\* the number of 0 bits before the first 1
LeadingZeros(bits) ==
    LET O == {k \in 1..Len(bits) : bits[k] = 1}
    IN IF O = {} THEN Len(bits)
       ELSE (CHOOSE i \in O : \A j \in O : i <= j) - 1

\* the double 1 - q for a double 0 <= q <= 1
FSubFromOne(q) ==
    IF q = FZero THEN FOne
    ELSE IF q = FOne THEN FZero
    ELSE IF q[1] >= 1 THEN FNegative
    ELSE LET frac == [k \in 1..(0 - q[1]) |-> 0] \o q[2]
             diff == BitsNeg(frac)
             z    == LeadingZeros(diff)
         IN FRound(0 - z, SubSeq(diff, z + 1, Len(diff)), FALSE)

FGeq(x, y) ==
    IF x[1] # y[1] THEN x[1] > y[1]
    ELSE LET D == {k \in 1..FBits : x[2][k] # y[2][k]}
         IN D = {} \/ (LET k == CHOOSE i \in D : \A j \in D : i <= j
                       IN x[2][k] > y[2][k])

FGt(x, y) == x # y /\ FGeq(x, y)

\* the doubles of the similarities and literals with small denominators,
\* computed once
SimFloats == [den \in 1..(2 * MemoLen) |->
                [num \in 0..den |-> FSubFromOne(FDiv(den - num, den))]]
LitFloats == [d \in 1..(2 * MemoLen) |-> [n \in 0..d |-> FDiv(n, d)]]

\* line 77: the double 1 - dist / max_len of a similarity pair
FloatOfSim(r) ==
    IF r[2] <= 2 * MemoLen /\ 0 <= r[1] /\ r[1] <= r[2]
    THEN SimFloats[r[2]][r[1]]
    ELSE FSubFromOne(FDiv(r[2] - r[1], r[2]))

\* the double of a threshold n / d given as a decimal literal
FloatOfLit(t) ==
    IF t[2] <= 2 * MemoLen /\ 0 <= t[1] /\ t[1] <= t[2]
    THEN LitFloats[t[2]][t[1]]
    ELSE FDiv(t[1], t[2])

\* the float comparisons of a similarity with a literal
SimGeq(r, t) == FGeq(FloatOfSim(r), FloatOfLit(t))
SimGt(r, t)  == FGt(FloatOfSim(r), FloatOfLit(t))
SimEq(r, t)  == FloatOfSim(r) = FloatOfLit(t)

\* the float comparisons of two similarities
SimsGeq(a, b) == FGeq(FloatOfSim(a), FloatOfSim(b))
SimsGt(a, b)  == FGt(FloatOfSim(a), FloatOfSim(b))
SimsEq(a, b)  == FloatOfSim(a) = FloatOfSim(b)

Min3_no_deletion(a, b, c) == IF b <= c THEN b ELSE c

Min3(a, b, c) == IF a <= b THEN (IF a <= c THEN a ELSE c)
                           ELSE (IF b <= c THEN b ELSE c)

(***************************************************************************)
(* are_keys_nearby and modified_levenshtein_ratio                          *)
(***************************************************************************)
are_keys_nearby_symmetric(c1, c2, nearby) ==
    \/ lower(c2) \in dict_get(nearby, lower(c1))
    \/ lower(c1) \in dict_get(nearby, lower(c2))

are_keys_nearby(c1, c2, nearby) ==
    lower(c2) \in dict_get(nearby, lower(c1))

\* the substitution cost of lines 64-69, in half units
SubstCost_caseless(c1, c2, nearby) ==
    IF lower(c1) = lower(c2) THEN 0
    ELSE IF are_keys_nearby(c1, c2, nearby) THEN 1
    ELSE 2

SubstCost_dear(c1, c2, nearby) ==
    IF c1 = c2 THEN 0
    ELSE IF are_keys_nearby(c1, c2, nearby) THEN 3
    ELSE 2

SubstCost(c1, c2, nearby) ==
    IF c1 = c2 THEN 0
    ELSE IF are_keys_nearby(c1, c2, nearby) THEN 1
    ELSE 2

\* lines 60-74, inner loop: row i of the dp table, in half units, from row
\* i - 1 (prev); row and prev hold dp[.][0], dp[.][1], ... from index 1 on
RECURSIVE FillRow(_, _, _, _, _)
FillRow(c1, w2, nearby, prev, row) ==
    IF Len(row) = Len(w2) + 1 THEN row
    ELSE LET j == Len(row)
         IN FillRow(c1, w2, nearby, prev,
                    Append(row, Min3(prev[j + 1] + 2,
                                     row[j] + 2,
                                     prev[j] + SubstCost(c1, w2[j], nearby))))

\* lines 53-74, outer loop: row i of the dp table (dp[0][j] = j, dp[i][0] = i)
RECURSIVE TableRow(_, _, _, _)
TableRow(w1, w2, nearby, i) ==
    IF i = 0 THEN [j \in 1..Len(w2) + 1 |-> 2 * (j - 1)]
    ELSE FillRow(w1[i], w2, nearby, TableRow(w1, w2, nearby, i - 1), <<2 * i>>)

max_len_shorter(len1, len2) ==
    LET m == IF len1 <= len2 THEN len1 ELSE len2
    IN IF m # 0 THEN m ELSE 1

max_len(len1, len2) ==
    LET m == IF len1 >= len2 THEN len1 ELSE len2
    IN IF m # 0 THEN m ELSE 1

modified_levenshtein_ratio(w1, w2, nearby) ==
    LET len1 == Len(w1)
        len2 == Len(w2)
        dist == TableRow(w1, w2, nearby, len1)[len2 + 1]
        ml   == max_len(len1, len2)
    IN <<2 * ml - dist, 2 * ml>>

(***************************************************************************)
(* Inputs                                                                  *)
(***************************************************************************)
RatioChars == {"o", "i", "O"}
KeyChars   == {"o", "i"}

WordsUpTo(n) == UNION {[1..k -> RatioChars] : k \in 0..n}

\* what load_keymap_conf can return over KeyChars: lowercase keys, each with
\* a list of lowercase neighbors (possibly empty, possibly naming the key)
Relations == UNION {[K -> SUBSET KeyChars] : K \in SUBSET KeyChars}

NoKeys == [k \in {} |-> {}]
KeysOI == [k \in {"o"} |-> {"i"}]

s_hollo == <<"h", "o", "l", "l", "o">>
s_hillo == <<"h", "i", "l", "l", "o">>
s_hello == <<"h", "e", "l", "l", "o">>
s_hallo == <<"h", "a", "l", "l", "o">>
s_help  == <<"h", "e", "l", "p">>
s_hellp == <<"h", "e", "l", "l", "p">>

NoRatio == <<0, 0>>
None    == <<"None">>

\* values of the variables a specification does not use
IdleRatio == /\ word1 = <<>> /\ word2 = <<>>
             /\ ratio = NoRatio /\ prev_ratio = NoRatio
IdleAuto  == /\ threshold = <<0, 1>> /\ max_suggestions = 0
             /\ similarities = <<>> /\ result = <<None, <<>>>>
IdleMain  == /\ auto_correct_mode = FALSE /\ selection = <<>> /\ out = <<>>

(***************************************************************************)
(* SpecRatio: calls of modified_levenshtein_ratio                          *)
(***************************************************************************)
InitRatio ==
    /\ pc = "call"
    /\ \/ /\ word1 \in WordsUpTo(MaxLen)
          /\ word2 \in WordsUpTo(MaxLen)
          /\ nearby_keys \in Relations
       \/ /\ word1 = s_hollo
          /\ word2 = s_hillo
          /\ nearby_keys \in {NoKeys, KeysOI}
    /\ ratio = NoRatio
    /\ prev_ratio = NoRatio
    /\ word = <<>>
    /\ dictionary = <<>>
    /\ IdleAuto
    /\ IdleMain

CallRatio ==
    /\ pc = "call"
    /\ ratio' = modified_levenshtein_ratio(word1, word2, nearby_keys)
    /\ pc' = "returned"
    /\ UNCHANGED <<word1, word2, nearby_keys, prev_ratio, word, dictionary,
                   threshold, max_suggestions, similarities, result,
                   auto_correct_mode, selection, out>>

\* the caller adds one entry to the relation and asks again
AddNeighbor ==
    /\ pc = "returned"
    /\ \E x \in KeyChars, y \in KeyChars :
          /\ y \notin dict_get(nearby_keys, x)
          /\ nearby_keys' = [k \in DOMAIN nearby_keys \cup {x} |->
                               IF k = x THEN dict_get(nearby_keys, x) \cup {y}
                                        ELSE nearby_keys[k]]
    /\ prev_ratio' = ratio
    /\ pc' = "call"
    /\ UNCHANGED <<word1, word2, ratio, word, dictionary,
                   threshold, max_suggestions, similarities, result,
                   auto_correct_mode, selection, out>>

NextRatio == CallRatio \/ AddNeighbor

SpecRatio == InitRatio /\ [][NextRatio]_vars

\* C1: the ratio returned for any two strings and any relation is in [0, 1]
C1_RatioInUnitInterval ==
    pc = "returned" => /\ SimGeq(ratio, <<0, 1>>)
                       /\ ~SimGt(ratio, <<1, 1>>)

C1_Witness ==
    /\ pc = "returned"
    /\ word1 = <<>>
    /\ word2 = <<"o", "i">>
    /\ SimEq(ratio, <<0, 1>>)

\* C2: the ratio is 1 exactly when the two strings are the identical string,
\* whatever the relation lists (a key may list itself)
C2_OneIffIdentical ==
    pc = "returned" => (SimEq(ratio, <<1, 1>>) <=> word1 = word2)

C2_Witness ==
    /\ pc = "returned"
    /\ word1 = <<"o", "i">>
    /\ word2 = word1
    /\ "o" \in dict_get(nearby_keys, "o")
    /\ "o" \in dict_get(nearby_keys, "i")
    /\ SimEq(ratio, <<1, 1>>)

OneCharEach == /\ Len(word1) = 1 /\ Len(word2) = 1 /\ word1[1] # word2[1]

C4_Examples ==
    /\ (word1 = <<"o">> /\ word2 = <<"i">> /\ nearby_keys = KeysOI)
          => SimEq(ratio, <<1, 2>>)
    /\ (word1 = <<"i">> /\ word2 = <<"o">> /\ nearby_keys = KeysOI)
          => SimEq(ratio, <<0, 1>>)
    /\ (word1 = s_hollo /\ word2 = s_hillo /\ nearby_keys = KeysOI)
          => SimEq(ratio, <<9, 10>>)
    /\ (word1 = s_hollo /\ word2 = s_hillo /\ nearby_keys = NoKeys)
          => SimEq(ratio, <<8, 10>>)

\* C4 as stated: substituting x by a different y costs 0.5 exactly when y is
\* in R[x] and 1 otherwise, read off the ratio of two one-character strings
C4_AsStated ==
    pc = "returned" =>
       /\ OneCharEach =>
             SimEq(ratio, IF word2[1] \in dict_get(nearby_keys, word1[1])
                          THEN <<1, 2>> ELSE <<0, 1>>)
       /\ C4_Examples

\* C4 (amended): substituting x by a different y costs 0.5 exactly when the
\* lowercased y is in R[lowercased x] and 1 otherwise, whether or not x is in
\* R[y]; the four example values of the claim hold
C4_DirectionalLowercased ==
    pc = "returned" =>
       /\ OneCharEach =>
             SimEq(ratio, IF lower(word2[1]) \in dict_get(nearby_keys, lower(word1[1]))
                          THEN <<1, 2>> ELSE <<0, 1>>)
       /\ C4_Examples

C4_Witness ==
    /\ pc = "returned"
    /\ word1 = <<"O">>
    /\ word2 = <<"i">>
    /\ nearby_keys = KeysOI
    /\ SimEq(ratio, <<1, 2>>)

\* C5: adding one entry to the relation never decreases the ratio of the
\* same two strings
C5_Monotone ==
    (pc = "returned" /\ prev_ratio # NoRatio) => SimsGeq(ratio, prev_ratio)

C5_Witness ==
    /\ pc = "returned"
    /\ prev_ratio # NoRatio
    /\ Len(word1) = 3
    /\ SimsGt(ratio, prev_ratio)

(***************************************************************************)
(* autocorrect                                                             *)
(***************************************************************************)
\* line 92: the filter on the similarity
Retain_strict(sim, thr) == SimGt(sim, thr)

Retain(sim, thr) == SimGeq(sim, thr)

\* lines 89-93: the (w, sim) pairs appended, in dictionary order
Scored(w, dict, thr, nearby) ==
    LET all == [k \in 1..Len(dict) |->
                   <<dict[k], modified_levenshtein_ratio(w, dict[k], nearby)>>]
        keep(p) == Retain(p[2], thr)
    IN SelectSeq(all, keep)

\* line 94: list.sort(key=lambda x: x[1], reverse=True); the sort is stable,
\* also with reverse=True
RECURSIVE sort_desc_ties_reversed(_)
sort_desc_ties_reversed(s) ==
    IF s = <<>> THEN <<>>
    ELSE LET front == sort_desc_ties_reversed(SubSeq(s, 1, Len(s) - 1))
             p     == s[Len(s)]
             n     == Cardinality({k \in 1..Len(front) : SimsGt(front[k][2], p[2])})
         IN SubSeq(front, 1, n) \o <<p>> \o SubSeq(front, n + 1, Len(front))

RECURSIVE sort_desc(_)
sort_desc(s) ==
    IF s = <<>> THEN <<>>
    ELSE LET front == sort_desc(SubSeq(s, 1, Len(s) - 1))
             p     == s[Len(s)]
             n     == Cardinality({k \in 1..Len(front) : SimsGeq(front[k][2], p[2])})
         IN SubSeq(front, 1, n) \o <<p>> \o SubSeq(front, n + 1, Len(front))

\* the slice s[:n] for n >= 0
Prefix(s, n) == SubSeq(s, 1, IF n <= Len(s) THEN n ELSE Len(s))

\* line 102: best_score > 0.90
Confident_inclusive(score) == SimGeq(score, <<9, 10>>)

Confident(score) == SimGt(score, <<9, 10>>)

\* lines 88-94: the local list similarities when the loop and sort are done
SortedSimilarities(w, dict, thr, nearby) ==
    sort_desc(Scored(str_lower(w), dict, thr, nearby))

\* lines 96-105: the returned pair (best_match or None, suggestions)
Decide(sims, max_sug) ==
    IF sims = <<>> THEN <<None, <<>>>>
    ELSE LET best_match  == sims[1][1]
             best_score  == sims[1][2]
             top         == Prefix(sims, max_sug)
             suggestions == [k \in 1..Len(top) |-> top[k][1]]
         IN IF Confident(best_score) THEN <<best_match, suggestions>>
                                     ELSE <<None, suggestions>>

autocorrect(w, dict, thr, max_sug, nearby) ==
    Decide(SortedSimilarities(w, dict, thr, nearby), max_sug)

(***************************************************************************)
(* SpecAuto: calls of autocorrect                                          *)
(***************************************************************************)
s_Hello == <<"H", "e", "l", "l", "o">>
s_Hollo == <<"H", "o", "l", "l", "o">>

AutoWords == {<<>>, <<"o">>, s_Hollo, s_hello, s_hellp}
DictWords == {<<"O">>, s_hillo, s_hello, s_Hello, s_help}
Dictionaries == UNION {[1..k -> DictWords] : k \in 0..MaxDict}
Thresholds == {<<1, 5>>, <<1, 2>>, <<9, 10>>}
KeysSelf == [k \in {"o", "h"} |-> IF k = "o" THEN {"i", "o"} ELSE {"h"}]
AutoRelations == {NoKeys, KeysSelf}

\* line 80: the default of max_suggestions
DefaultMaxSuggestions == 5

InitAuto ==
    /\ pc = "call"
    /\ \/ /\ word \in AutoWords
          /\ dictionary \in Dictionaries
          /\ threshold \in Thresholds
          /\ max_suggestions \in 0..MaxSug
          /\ nearby_keys \in AutoRelations
       \/ /\ word = s_hellp
          /\ dictionary = <<s_hello, s_hallo, s_help>>
          /\ threshold = <<3, 4>>
          /\ max_suggestions = DefaultMaxSuggestions
          /\ nearby_keys = NoKeys
    /\ similarities = <<>>
    /\ result = <<None, <<>>>>
    /\ IdleRatio
    /\ IdleMain

CallAutocorrect ==
    /\ pc = "call"
    /\ similarities' = SortedSimilarities(word, dictionary, threshold, nearby_keys)
    /\ result' = Decide(similarities', max_suggestions)
    /\ pc' = "returned"
    /\ UNCHANGED <<word1, word2, nearby_keys, ratio, prev_ratio, word, dictionary,
                   threshold, max_suggestions, auto_correct_mode, selection, out>>

NextAuto == CallAutocorrect

SpecAuto == InitAuto /\ [][NextAuto]_vars

\* the similarity autocorrect computes for dictionary entry k
Sim(k) == modified_levenshtein_ratio(str_lower(word), dictionary[k], nearby_keys)

\* the similarities of all entries, in dictionary order
Sims == [k \in 1..Len(dictionary) |-> Sim(k)]

RetainedIdx(sims) == {k \in 1..Len(sims) : SimGeq(sims[k], threshold)}

\* position of entry k among the retained entries: similarity descending,
\* dictionary order among equal similarities
Rank(sims, k) ==
    1 + Cardinality({j \in RetainedIdx(sims) :
                        \/ SimsGt(sims[j], sims[k])
                        \/ (SimsEq(sims[j], sims[k]) /\ j < k)})

Occurrences(seq, x) == Cardinality({k \in 1..Len(seq) : seq[k] = x})

\* C3 as stated: an entry that differs from the word only in letter case has
\* similarity 1 in autocorrect, with any relation
C3_CaseInsensitive ==
    pc = "returned" =>
       \A k \in 1..Len(dictionary) :
          str_lower(dictionary[k]) = str_lower(word) =>
             \E n \in 1..Len(similarities) :
                /\ similarities[n][1] = dictionary[k]
                /\ SimEq(similarities[n][2], <<1, 1>>)

C6_Holds(sims) ==
    /\ \A k \in 1..Len(dictionary) :
          Occurrences(similarities, <<dictionary[k], sims[k]>>) =
             IF SimGeq(sims[k], threshold)
             THEN Occurrences(dictionary, dictionary[k])
             ELSE 0
    /\ Len(similarities) = Cardinality(RetainedIdx(sims))
    /\ (RetainedIdx(sims) = {} => result = <<None, <<>>>>)

\* C6: an entry is retained exactly when its similarity to the lowercased
\* word is >= threshold (equal is in, strictly below is out), and with
\* nothing retained the result is (None, [])
C6_ThresholdBoundary == pc = "returned" => C6_Holds(Sims)

C6_Seen(sims) ==
    \E k, j \in 1..Len(dictionary) :
       /\ SimEq(sims[k], threshold)
       /\ Occurrences(similarities, <<dictionary[k], sims[k]>>) = 1
       /\ ~SimGeq(sims[j], threshold)
       /\ Occurrences(similarities, <<dictionary[j], sims[j]>>) = 0

C6_Witness == pc = "returned" /\ C6_Seen(Sims)

C7_Holds(sims) ==
    /\ Len(result[2]) = IF max_suggestions <= Cardinality(RetainedIdx(sims))
                        THEN max_suggestions ELSE Cardinality(RetainedIdx(sims))
    /\ \A k \in RetainedIdx(sims) :
          Rank(sims, k) <= max_suggestions => result[2][Rank(sims, k)] = dictionary[k]

\* C7: the candidate list is the first max_suggestions retained entries by
\* similarity descending, equal similarities in dictionary order
C7_StableRanking == pc = "returned" => C7_Holds(Sims)

C7_Seen(sims) ==
    /\ Cardinality(RetainedIdx(sims)) > max_suggestions
    /\ \E j, k \in RetainedIdx(sims) :
          /\ j < k
          /\ SimsEq(sims[j], sims[k])
          /\ dictionary[j] # dictionary[k]
          /\ result[2] = <<dictionary[j], dictionary[k]>>

C7_Witness == pc = "returned" /\ C7_Seen(Sims)

TopIsConfident(sims) == \E k \in RetainedIdx(sims) : SimGt(sims[k], <<9, 10>>)
TopIsNinety(sims) ==
    /\ \E k \in RetainedIdx(sims) : SimEq(sims[k], <<9, 10>>)
    /\ \A k \in RetainedIdx(sims) : ~SimGt(sims[k], <<9, 10>>)

C8_Decision(sims) ==
    /\ result[1] # None <=> TopIsConfident(sims)
    /\ result[1] # None =>
          \E k \in RetainedIdx(sims) : Rank(sims, k) = 1 /\ result[1] = dictionary[k]

C8_StatedHolds(sims) ==
    /\ C8_Decision(sims)
    /\ TopIsNinety(sims) => (result[1] = None /\ result[2] # <<>>)

\* C8 as stated: best match is non-None iff the top retained similarity is
\* > 0.90, it is then the top-ranked word, and a top similarity of exactly
\* 0.90 gives None with a non-empty candidate list
C8_AsStated == pc = "returned" => C8_StatedHolds(Sims)

C8_Holds(sims) ==
    /\ C8_Decision(sims)
    /\ TopIsNinety(sims) => /\ result[1] = None
                            /\ (max_suggestions >= 1 => result[2] # <<>>)

\* C8 (amended): as stated, the candidate list at a top similarity of exactly
\* 0.90 being non-empty whenever max_suggestions >= 1
C8_AutoCorrectBoundary == pc = "returned" => C8_Holds(Sims)

C8_Witness ==
    /\ pc = "returned"
    /\ TopIsNinety(Sims)
    /\ max_suggestions >= 1
    /\ result[1] = None
    /\ result[2] # <<>>

Scenario9 ==
    /\ pc = "returned"
    /\ word = s_hellp
    /\ dictionary = <<s_hello, s_hallo, s_help>>
    /\ threshold = <<3, 4>>
    /\ max_suggestions = DefaultMaxSuggestions
    /\ nearby_keys = NoKeys

\* C9 as stated: the scenario returns ['help', 'hello', 'hallo'] with
\* similarities 0.8, 0.8 and 0.6, and no auto-correction
C9_AsStated ==
    Scenario9 =>
       /\ result = <<None, <<s_help, s_hello, s_hallo>>>>
       /\ SimEq(Sim(3), <<8, 10>>)
       /\ SimEq(Sim(1), <<8, 10>>)
       /\ SimEq(Sim(2), <<6, 10>>)

\* C9 (amended): the scenario returns ['hello', 'help'], both with similarity
\* 0.8 and in dictionary order; 'hallo' has similarity 0.6 and is not
\* returned; there is no auto-correction
C9_Scenario ==
    Scenario9 =>
       /\ result = <<None, <<s_hello, s_help>>>>
       /\ Len(similarities) = 2
       /\ similarities[1][1] = s_hello /\ SimEq(similarities[1][2], <<8, 10>>)
       /\ similarities[2][1] = s_help  /\ SimEq(similarities[2][2], <<8, 10>>)
       /\ SimEq(Sim(2), <<6, 10>>)

C9_Witness ==
    /\ Scenario9
    /\ result[2] = <<s_hello, s_help>>

(***************************************************************************)
(* main: the interactive loop                                              *)
(***************************************************************************)
\* str.strip(), over the one whitespace character the inputs use
RECURSIVE lstrip(_)
lstrip(s) == IF s # <<>> /\ s[1] = " " THEN lstrip(Tail(s)) ELSE s

RECURSIVE rstrip(_)
rstrip(s) == IF s # <<>> /\ s[Len(s)] = " "
             THEN rstrip(SubSeq(s, 1, Len(s) - 1)) ELSE s

strip(s) == rstrip(lstrip(s))

\* "sup2" stands for the one-character string of SUPERSCRIPT TWO (U+00B2):
\* str.isdigit() accepts it and int() rejects it
DecimalChars == {"0", "1", "2", "3"}
DigitChars   == DecimalChars \cup {"sup2"}

isdigit(s) == s # <<>> /\ \A k \in 1..Len(s) : s[k] \in DigitChars

DigitValue(c) == CASE c = "0" -> 0 [] c = "1" -> 1 [] c = "2" -> 2 [] c = "3" -> 3

\* int(s) for a string that passed isdigit(): defined on decimal digits
IntParses(s) == \A k \in 1..Len(s) : s[k] \in DecimalChars

RECURSIVE int(_)
int(s) == IF s = <<>> THEN 0
          ELSE 10 * int(SubSeq(s, 1, Len(s) - 1)) + DigitValue(s[Len(s)])

s_exit == <<"e", "x", "i", "t">>
s_quit == <<"q", "u", "i", "t">>
s_y    == <<"y">>
s_yes  == <<"y", "e", "s">>
s_n    == <<"n">>
s_no   == <<"n", "o">>

\* line 80: the default of threshold
DefaultThreshold == <<3, 4>>

\* lines typed at the prompts
ToggleLines == {<<"y">>, <<"Y", "E", "S">>, <<" ", "n">>, <<"n", "o">>,
                <<"o">>, <<>>}
WordLines   == {<<>>, <<" ">>, s_exit, <<"Q", "u", "i", "t", " ">>,
                s_hellp, <<" ", "H", "o", "l", "l", "o">>, s_hello, <<"z">>}
PickChars   == {"0", "1", "2", " ", "x", "sup2"}
PickLines   == UNION {[1..k -> PickChars] : k \in 0..MaxLine}

\* what load_wordlist / load_keymap_conf return for the files present
WordLists == {<<>>, <<s_hello, s_hallo, s_help>>, <<s_hillo, s_hello>>}
Keymaps   == {NoKeys, KeysOI}

InitMain ==
    /\ pc = "load"
    /\ dictionary = <<>>
    /\ nearby_keys = NoKeys
    /\ word = <<>>
    /\ IdleRatio
    /\ IdleAuto
    /\ IdleMain

\* lines 119-124: both files load, or one is missing and main returns
Load ==
    /\ pc = "load"
    /\ \/ /\ dictionary' \in WordLists
          /\ nearby_keys' \in Keymaps
          /\ out' = <<"Enable automatic correction if confident?">>
          /\ pc' = "toggle"
       \/ /\ out' = <<"not found in current directory.">>
          /\ pc' = "done"
          /\ UNCHANGED <<dictionary, nearby_keys>>
    /\ UNCHANGED <<word1, word2, ratio, prev_ratio, word, threshold,
                   max_suggestions, similarities, result, auto_correct_mode,
                   selection>>

\* lines 107-116 and 126-128: one answer at the yes/no prompt
AnswerToggle ==
    /\ pc = "toggle"
    /\ \E line \in ToggleLines :
          LET answer == str_lower(strip(line))
          IN IF answer \in {s_y, s_yes}
             THEN /\ auto_correct_mode' = TRUE
                  /\ out' = <<"Enter words to autocorrect">>
                  /\ pc' = "enter_word"
             ELSE IF answer \in {s_n, s_no}
             THEN /\ auto_correct_mode' = FALSE
                  /\ out' = <<"Enter words to autocorrect">>
                  /\ pc' = "enter_word"
             ELSE /\ out' = <<"Please enter 'y' or 'n'.">>
                  /\ UNCHANGED <<auto_correct_mode, pc>>
    /\ UNCHANGED <<word1, word2, nearby_keys, ratio, prev_ratio, word, dictionary,
                   threshold, max_suggestions, similarities, result, selection>>

\* lines 131-148 and 161-162: one line at the word prompt, up to the next read
EnterWord ==
    /\ pc = "enter_word"
    /\ \E line \in WordLines :
          LET w == strip(line)
          IN IF str_lower(w) \in {s_exit, s_quit}
             THEN /\ word' = w
                  /\ out' = <<"Exiting.">>
                  /\ pc' = "done"
                  /\ UNCHANGED result
             ELSE IF w = <<>>
             THEN /\ word' = w
                  /\ out' = <<"Please enter a non-empty word.">>
                  /\ UNCHANGED <<pc, result>>
             ELSE /\ word' = w
                  /\ result' = autocorrect(w, dictionary, DefaultThreshold,
                                           DefaultMaxSuggestions, nearby_keys)
                  /\ IF auto_correct_mode /\ result'[1] # None /\ result'[1] # <<>>
                     THEN /\ out' = <<"Auto-corrected", w, result'[1]>>
                          /\ pc' = "enter_word"
                     ELSE IF result'[2] # <<>>
                     THEN /\ out' = <<"No auto-correction applied. Suggestions:", w>>
                          /\ pc' = "pick"
                     ELSE /\ out' = <<"No suggestions found", w>>
                          /\ pc' = "enter_word"
    /\ UNCHANGED <<word1, word2, nearby_keys, ratio, prev_ratio, dictionary,
                   threshold, max_suggestions, similarities, auto_correct_mode,
                   selection>>

\* lines 149-160: one line at the selection prompt; int() raising ValueError
\* ends main
Pick ==
    /\ pc = "pick"
    /\ \E line \in PickLines :
          /\ selection' = strip(line)
          /\ IF isdigit(selection')
             THEN IF IntParses(selection')
                  THEN LET sel_index == int(selection') - 1
                       IN /\ IF 0 <= sel_index /\ sel_index < Len(result[2])
                             THEN out' = <<"Corrected", word, result[2][sel_index + 1]>>
                             ELSE out' = <<"Invalid selection. No correction applied.">>
                          /\ pc' = "enter_word"
                  ELSE /\ out' = <<"ValueError: invalid literal for int()">>
                       /\ pc' = "crashed"
             ELSE IF selection' = <<>>
             THEN /\ out' = <<"No correction applied.">>
                  /\ pc' = "enter_word"
             ELSE /\ out' = <<"Invalid input. No correction applied.">>
                  /\ pc' = "enter_word"
    /\ UNCHANGED <<word1, word2, nearby_keys, ratio, prev_ratio, word, dictionary,
                   threshold, max_suggestions, similarities, result,
                   auto_correct_mode>>

NextMain == Load \/ AnswerToggle \/ EnterWord \/ Pick

SpecMain == InitMain /\ [][NextMain]_vars

\* a numeral: a non-empty string of decimal digits
IsNumeral(s) == s # <<>> /\ \A k \in 1..Len(s) : s[k] \in DecimalChars

ValidPick(s, suggestions) ==
    /\ IsNumeral(s)
    /\ 1 <= int(s)
    /\ int(s) <= Len(suggestions)

ReportsCorrection(o) == o[1] \in {"Auto-corrected", "Corrected"}

C10_Step ==
    \* a correction is reported only by (a) or (b)
    /\ ReportsCorrection(out') =>
          \/ /\ pc = "enter_word"
             /\ auto_correct_mode
             /\ result'[1] # None
             /\ out' = <<"Auto-corrected", word', result'[1]>>
             /\ pc' = "enter_word"
          \/ /\ pc = "pick"
             /\ ValidPick(selection', result[2])
             /\ out' = <<"Corrected", word, result[2][int(selection')]>>
    \* (b) an in-range numeral chooses that suggestion
    /\ (pc = "pick" /\ ValidPick(selection', result[2])) =>
          out' = <<"Corrected", word, result[2][int(selection')]>>
    \* toggle off: a confident match is listed, not applied
    /\ (/\ pc = "enter_word"
        /\ ~auto_correct_mode
        /\ word' # <<>>
        /\ str_lower(word') \notin {s_exit, s_quit}
        /\ result'[1] # None) =>
          /\ out'[1] = "No auto-correction applied. Suggestions:"
          /\ pc' = "pick"
    \* any other line at the selection prompt: no correction, next word
    /\ (pc = "pick" /\ ~ValidPick(selection', result[2])) =>
          /\ ~ReportsCorrection(out')
          /\ pc' = "enter_word"

\* C10 as stated: a word is reported corrected only (a) with the toggle on
\* and a non-None best match, without prompting, or (b) by an in-range numeral
\* at the selection prompt; with the toggle off a confident match is listed
\* instead; any other selection leaves the word uncorrected and the loop goes
\* on to the next word
C10_LoopCorrections == [][C10_Step]_vars

====
